---- MODULE Spec2Model ----
(***************************************************************************)
(* A model of jetson-monitor's metrics engine (src/app.py).                *)
(*                                                                         *)
(* Text is a sequence of one-character strings, so that str.split,         *)
(* str.strip, the "in" test and float() are computed character by          *)
(* character as Python computes them.  An optional value (None or a        *)
(* float) is the empty sequence or a one-element sequence.  A call that    *)
(* can raise yields an outcome record [raised, value]: raised is "none"    *)
(* or the name of the exception that leaves the call.                      *)
(***************************************************************************)
EXTENDS Integers, Sequences, FiniteSets, TLC

\* ------------------------------------------------------------------------
\* Bounds of the model
\* ------------------------------------------------------------------------

\* Most fragments concatenated into one diagnostic line.
MaxFrags == 3

\* The latest reading of the wall clock.
MaxUptime == 7325

\* Byte counts 0, ByteStep, ..., MaxByteSteps * ByteStep are formatted.
MaxByteSteps == 48

MaxTime == 1002

\* ------------------------------------------------------------------------
\* Python text primitives used by the parser
\* ------------------------------------------------------------------------

None == <<>>

Some(v) == <<v>>

Digits == {"0", "1", "2", "3", "4", "5", "6", "7", "8", "9"}

DigitVal(c) ==
    CASE c = "0" -> 0 [] c = "1" -> 1 [] c = "2" -> 2 [] c = "3" -> 3
      [] c = "4" -> 4 [] c = "5" -> 5 [] c = "6" -> 6 [] c = "7" -> 7
      [] c = "8" -> 8 [] c = "9" -> 9

Whitespace == {" ", "\n"}

\* str.find: the index of the first occurrence of sub in s, 0 when there is none.
Find(s, sub) ==
    LET hits == {i \in 1..(Len(s) - Len(sub) + 1) : SubSeq(s, i, i + Len(sub) - 1) = sub}
    IN  IF hits = {} THEN 0 ELSE CHOOSE i \in hits : \A j \in hits : i <= j

\* The "in" operator on strings.
Contains(s, sub) == Find(s, sub) # 0

\* str.split(sep) for a non-empty sep: every piece, in order.
RECURSIVE Split(_, _)
Split(s, sep) ==
    LET i == Find(s, sep)
    IN  IF i = 0 THEN <<s>>
        ELSE <<SubSeq(s, 1, i - 1)>> \o Split(SubSeq(s, i + Len(sep), Len(s)), sep)

\* str.strip(chars): leading and trailing characters of the set removed.
RECURSIVE StripChars(_, _)
StripChars(s, chars) ==
    IF s = <<>> THEN s
    ELSE IF Head(s) \in chars THEN StripChars(Tail(s), chars)
    ELSE IF s[Len(s)] \in chars THEN StripChars(SubSeq(s, 1, Len(s) - 1), chars)
    ELSE s

\* str.strip(): whitespace removed at both ends.
Strip(s) == StripChars(s, Whitespace)

\* Whether float(s) returns (it raises ValueError otherwise): surrounding
\* whitespace is ignored and what is left is a non-empty run of decimal
\* digits.  The alphabet of the modelled lines holds no sign, ".", exponent
\* or "inf"/"nan" spelling, so this is float()'s whole accepting set on it.
IsFloat(s) ==
    LET t == Strip(s)
    IN  t # <<>> /\ \A i \in 1..Len(t) : t[i] \in Digits

\* The number float(s) returns, for s accepted by IsFloat.
RECURSIVE DecimalValue(_)
DecimalValue(t) ==
    IF t = <<>> THEN 0
    ELSE 10 * DecimalValue(SubSeq(t, 1, Len(t) - 1)) + DigitVal(t[Len(t)])

FloatValue(s) == DecimalValue(Strip(s))

\* ------------------------------------------------------------------------
\* parse_tegrastats_value
\* ------------------------------------------------------------------------

\* An empty separator makes str.split raise ValueError, which the function
\* catches, as it does float()'s ValueError: both return None.
parse_tegrastats_value(stats, key, unit) ==
    IF ~Contains(stats, key) THEN None
    ELSE IF key = <<>> \/ unit = <<>> THEN None
    ELSE LET part == Strip(Split(Split(stats, key)[2], unit)[1])
         IN  IF IsFloat(part) THEN Some(FloatValue(part)) ELSE None

\* ------------------------------------------------------------------------
\* get_jetson_gpu_metrics: the parsing of the line read from tegrastats
\* ------------------------------------------------------------------------

\* The literals the parser searches for.
GR3D_FREQ == <<"G", "R", "3", "D", "_", "F", "R", "E", "Q">>

GPU_AT == <<"g", "p", "u", "@">>

CPU_AT == <<"c", "p", "u", "@">>

VDD_IN == <<"V", "D", "D", "_", "I", "N">>

VDD_CPU_GPU_CV == <<"V", "D", "D", "_", "C", "P", "U", "_", "G", "P", "U", "_", "C", "V">>

RAM == <<"R", "A", "M">>

CPU_OPEN == <<"C", "P", "U", " ", "[">>

PERCENT == <<"%">>

CELSIUS == <<"C">>

MILLIWATT == <<"m", "W">>

MEGABYTE == <<"M", "B">>

\* The (dictionary key, start marker, unit) triples of the five
\* parse_tegrastats_value calls, in the order of the calls.
ScalarFields ==
    << <<"gpu_utilization", GR3D_FREQ, PERCENT>>,
       <<"gpu_temperature", GPU_AT, CELSIUS>>,
       <<"cpu_temperature", CPU_AT, CELSIUS>>,
       <<"total_power", VDD_IN, MILLIWATT>>,
       <<"gpu_power", VDD_CPU_GPU_CV, MILLIWATT>> >>

EmptyDict == [k \in {} |-> 0]

Returned(v) == [raised |-> "none", value |-> v]

Raised(e, v) == [raised |-> e, value |-> v]

\* metrics[k] = v, done only when the parsed value is not None.
PutIfPresent(metrics, k, opt) ==
    IF opt = None THEN metrics ELSE (k :> opt[1]) @@ metrics

\* The five scalar fields, each added when its value parses.
RECURSIVE ScalarParse(_, _, _)
ScalarParse(stats, metrics, n) ==
    IF n > Len(ScalarFields) THEN metrics
    ELSE ScalarParse(stats,
                     PutIfPresent(metrics, ScalarFields[n][1],
                                  parse_tegrastats_value(stats, ScalarFields[n][2],
                                                         ScalarFields[n][3])),
                     n + 1)

RECURSIVE GCD(_, _)
GCD(a, b) == IF b = 0 THEN a ELSE GCD(b, a % b)

\* a / b as an exact fraction in lowest terms (a >= 0, b > 0).
Ratio(a, b) == [num |-> a \div GCD(a, b), den |-> b \div GCD(a, b)]

\* used / total * 100 as an exact fraction.
Percent(used, total) == [num |-> Ratio(used, total).num * 100, den |-> Ratio(used, total).den]

\* The RAM block.  The three assignments run in order inside one try: a
\* ValueError (unpacking other than two pieces, or a float() that fails) ends
\* the block and keeps what was already assigned; a division by zero is not
\* among the caught exceptions and leaves the block.
RamParse(stats, metrics) ==
    IF ~Contains(stats, RAM) THEN Returned(metrics)
    ELSE LET ram_part == Strip(Split(Split(stats, RAM)[2], MEGABYTE)[1])
             pieces == Split(ram_part, <<"/">>)
         IN  IF Len(pieces) # 2 THEN Returned(metrics)
             ELSE IF ~IsFloat(pieces[1]) THEN Returned(metrics)
             ELSE LET used == FloatValue(pieces[1])
                      m1 == ("ram_used" :> used) @@ metrics
                  IN  IF ~IsFloat(pieces[2]) THEN Returned(m1)
                      ELSE LET total == FloatValue(pieces[2])
                               m2 == ("ram_total" :> total) @@ m1
                           IN  IF total = 0 THEN Raised("ZeroDivisionError", m2)
                               ELSE Returned(("ram_percent" :> Percent(used, total)) @@ m2)

\* One core token "usage%@frequency": None when either float() raises
\* ValueError or the token has no "@" (IndexError).
CoreParse(core) ==
    LET parts == Split(core, <<"@">>)
        usageText == StripChars(parts[1], {"%"})
    IN  IF ~IsFloat(usageText) THEN None
        ELSE IF Len(parts) < 2 THEN None
        ELSE IF ~IsFloat(parts[2]) THEN None
        ELSE Some([usage |-> FloatValue(usageText), frequency |-> FloatValue(parts[2])])

\* The loop as it would be if the first token that fails ended it.
RECURSIVE CoresUntilBad(_)
CoresUntilBad(tokens) ==
    IF tokens = <<>> THEN <<>>
    ELSE IF CoreParse(Head(tokens)) = None THEN <<>>
    ELSE CoreParse(Head(tokens)) \o CoresUntilBad(Tail(tokens))

\* The loop over the core tokens: the tokens that parse, in order.
RECURSIVE CoresOf(_)
CoresOf(tokens) ==
    IF tokens = <<>> THEN <<>>
    ELSE CoreParse(Head(tokens)) \o CoresOf(Tail(tokens))

\* The per-core block.
CpuParse(stats, metrics) ==
    IF ~Contains(stats, CPU_OPEN) THEN metrics
    ELSE LET cpu_part == Split(Split(stats, CPU_OPEN)[2], <<"]">>)[1]
         IN  ("cpu_cores" :> CoresOf(Split(cpu_part, <<",">>))) @@ metrics

\* The body of get_jetson_gpu_metrics after the line is read: the outcome
\* of building the metrics dictionary from the line.
ParseTegrastats(stats) ==
    LET ram == RamParse(stats, ScalarParse(stats, EmptyDict, 1))
    IN  IF ram.raised # "none" THEN ram
        ELSE Returned(CpuParse(stats, ram.value))

\* ------------------------------------------------------------------------
\* The diagnostic lines the parser is applied to
\* ------------------------------------------------------------------------

Fragments ==
    { RAM \o <<" ">>, GR3D_FREQ \o <<" ">>, GPU_AT, CPU_OPEN,
      <<"7">>, <<"0">>, <<"x">>, <<"/">>, <<"%">>, <<"C">>, MEGABYTE,
      <<"@">>, <<",">>, <<"]">> }

\* Every concatenation of at most n fragments.
RECURSIVE Concats(_)
Concats(n) ==
    IF n = 0 THEN {<<>>}
    ELSE LET shorter == Concats(n - 1)
         IN  shorter \cup {f \o t : f \in Fragments, t \in shorter}

FreeLines == Concats(MaxFrags)

Values == {<<"7">>, <<"0">>, <<"x">>}

RamSections ==
    {<<>>} \cup {RAM \o <<" ">> \o u \o <<"/">> \o t \o MEGABYTE \o <<" ">> : u \in Values, t \in Values}

GpuSections ==
    {<<>>} \cup {GR3D_FREQ \o <<" ">> \o v \o <<"%", " ">> : v \in {<<"7">>, <<"x">>}}

CoreTokens == {<<"7", "%", "@", "7">>, <<"x", "%", "@", "7">>, <<"7", "%">>}

CpuSections ==
    {<<>>} \cup {CPU_OPEN \o c1 \o <<",">> \o c2 \o <<"]">> : c1 \in CoreTokens, c2 \in CoreTokens}

\* Lines laid out as tegrastats lays them out: RAM, then GR3D_FREQ, then CPU [.
FieldLines == {r \o g \o c : r \in RamSections, g \in GpuSections, c \in CpuSections}

Lines == FreeLines \cup FieldLines

\* ------------------------------------------------------------------------
\* State
\* ------------------------------------------------------------------------

VARIABLES
    line,           \* parser: the line the subprocess wrote
    parse_pc,       \* parser: "input", "value" or "metrics"
    parse_field,    \* parser: which of ScalarFields was asked for
    parse_value,    \* parser: what parse_tegrastats_value returned
    parse_outcome,  \* parser: the outcome of building the metrics dictionary
    threaded,       \* whether the HTTP layer serves requests concurrently
    host_io,        \* the host's cumulative byte counters
    prev_net_io,    \* get_network_metrics.prev_net_io (None: attribute unset)
    prev_time,      \* get_network_metrics.prev_time (None: attribute unset)
    calls,          \* per request thread: the frame of get_network_metrics
    recent,         \* the last two (counters, time) readings taken, oldest first
    model_file,     \* /proc/device-tree/model: "jetson", "other" or "unreadable"
    poll,           \* the frame of get_system_metrics and of the function it is in
    children,       \* the tegrastats subprocess of each of the two callers
    snapshot,       \* what get_system_metrics handed to its caller
    fn_pc,          \* helper call: "off", "input" or "done"
    fn_arg,         \* helper call: the argument
    fn_result       \* helper call: what the helper returned

parseVars == <<line, parse_pc, parse_field, parse_value, parse_outcome>>

netVars == <<threaded, host_io, prev_net_io, prev_time, calls, recent>>

pollVars == <<model_file, poll, children, snapshot>>

fnVars == <<fn_pc, fn_arg, fn_result>>

vars == <<parseVars, netVars, pollVars, fnVars>>

\* ------------------------------------------------------------------------
\* get_network_metrics
\* ------------------------------------------------------------------------

\* The request threads of the HTTP layer.
Threads == {1, 2}

\* The earliest reading of the wall clock.
StartTime == 1000

Times == StartTime..MaxTime

Counters(s, r) == [bytes_sent |-> s, bytes_recv |-> r]

\* Readings of psutil.net_io_counters().
CounterSamples == {Counters(1000, 2000), Counters(2000, 4000), Counters(3000, 4000)}

\* The host's counters never decrease.
NotBefore(a, b) == a.bytes_sent >= b.bytes_sent /\ a.bytes_recv >= b.bytes_recv

\* A quotient kept exact.
Frac(n, d) == [num |-> n, den |-> d]

Zero == Frac(0, 1)

FracEq(a, b) == a.num * b.den = b.num * a.den

FracNonNeg(a) == (a.num >= 0 /\ a.den > 0) \/ (a.num <= 0 /\ a.den < 0)

\* Rate with the two readings exchanged.
RateReversed(current, previous, time_diff) == Frac(previous - current, time_diff)

\* (current - previous) / time_diff, for one direction.
Rate(current, previous, time_diff) == Frac(current - previous, time_diff)

\* The frame of a thread that is not inside get_network_metrics.
IdleFrame ==
    [pc |-> "idle", net_io |-> None, current_time |-> None, time_diff |-> 0,
     sent_speed |-> Zero, recv_speed |-> Zero, first |-> FALSE, read_from |-> {}]

Running(t) == calls[t].pc \notin {"idle", "returned", "raised"}

\* A thread enters only when the HTTP layer lets it: at any time when it is
\* threaded, and otherwise when every other request has been answered.
MayEnter(t) == threaded \/ \A u \in Threads \ {t} : calls[u].pc = "idle"

Frame(t, changes) == [calls EXCEPT ![t] = changes @@ calls[t]]

\* net_io = psutil.net_io_counters()
NetReadCounters(t) ==
    /\ calls[t].pc = "idle"
    /\ MayEnter(t)
    /\ \E c \in CounterSamples :
          /\ NotBefore(c, host_io)
          /\ host_io' = c
          /\ calls' = Frame(t, [pc |-> "clock", net_io |-> Some(c)])
    /\ UNCHANGED <<threaded, prev_net_io, prev_time, recent, parseVars, pollVars, fnVars>>

\* current_time = time.time()
NetReadClock(t) ==
    /\ calls[t].pc = "clock"
    /\ \E now \in Times :
          /\ calls' = Frame(t, [pc |-> "check", current_time |-> Some(now)])
          /\ recent' = <<recent[2], Some([net_io |-> calls[t].net_io[1], time |-> now])>>
    /\ UNCHANGED <<threaded, host_io, prev_net_io, prev_time, parseVars, pollVars, fnVars>>

\* if not hasattr(get_network_metrics, 'prev_net_io')
NetCheckPrev(t) ==
    /\ calls[t].pc = "check"
    /\ calls' = Frame(t, IF prev_net_io = None
                            THEN [pc |-> "first_io", first |-> TRUE]
                            ELSE [pc |-> "prev_time", first |-> FALSE])
    /\ UNCHANGED <<threaded, host_io, prev_net_io, prev_time, recent, parseVars, pollVars, fnVars>>

\* The previous-sample attributes hold the objects the call read: each is
\* kept with the thread whose call created it.
StoredIo(t) == Some([io |-> calls[t].net_io[1], by |-> t])

StoredTime(t) == Some([time |-> calls[t].current_time[1], by |-> t])

\* get_network_metrics.prev_net_io = net_io, in the first-call branch
NetStoreFirstIo(t) ==
    /\ calls[t].pc = "first_io"
    /\ prev_net_io' = StoredIo(t)
    /\ calls' = Frame(t, [pc |-> "first_time"])
    /\ UNCHANGED <<threaded, host_io, prev_time, recent, parseVars, pollVars, fnVars>>

\* The first-call branch without its assignment of prev_time.
NetStoreFirstTimeForgotten(t) ==
    /\ calls[t].pc = "first_time"
    /\ calls' = Frame(t, [pc |-> "returned", sent_speed |-> Zero, recv_speed |-> Zero])
    /\ UNCHANGED <<threaded, host_io, prev_net_io, prev_time, recent, parseVars, pollVars, fnVars>>

\* get_network_metrics.prev_time = current_time; sent_speed = recv_speed = 0
NetStoreFirstTime(t) ==
    /\ calls[t].pc = "first_time"
    /\ prev_time' = StoredTime(t)
    /\ calls' = Frame(t, [pc |-> "returned", sent_speed |-> Zero, recv_speed |-> Zero])
    /\ UNCHANGED <<threaded, host_io, prev_net_io, recent, parseVars, pollVars, fnVars>>

\* NetReadPrevTime as it would be if a time_diff that is not positive made
\* the call return without storing its readings.
NetReadPrevTimeGuardReturns(t) ==
    /\ calls[t].pc = "prev_time"
    /\ IF prev_time = None
          THEN calls' = Frame(t, [pc |-> "raised"])
          ELSE LET d == calls[t].current_time[1] - prev_time[1].time
               IN  calls' = Frame(t, [pc |-> IF d > 0 THEN "prev_sent" ELSE "returned",
                                      time_diff |-> d,
                                      sent_speed |-> Zero, recv_speed |-> Zero,
                                      read_from |-> {prev_time[1].by}])
    /\ UNCHANGED <<threaded, host_io, prev_net_io, prev_time, recent, parseVars, pollVars, fnVars>>

\* time_diff = current_time - get_network_metrics.prev_time, and the test
\* time_diff > 0.  Reading an attribute that is not set raises AttributeError.
NetReadPrevTime(t) ==
    /\ calls[t].pc = "prev_time"
    /\ IF prev_time = None
          THEN calls' = Frame(t, [pc |-> "raised"])
          ELSE LET d == calls[t].current_time[1] - prev_time[1].time
               IN  calls' = Frame(t, [pc |-> IF d > 0 THEN "prev_sent" ELSE "store_io",
                                      time_diff |-> d,
                                      sent_speed |-> Zero, recv_speed |-> Zero,
                                      read_from |-> {prev_time[1].by}])
    /\ UNCHANGED <<threaded, host_io, prev_net_io, prev_time, recent, parseVars, pollVars, fnVars>>

\* sent_speed = (net_io.bytes_sent - prev_net_io.bytes_sent) / time_diff
NetReadPrevSent(t) ==
    /\ calls[t].pc = "prev_sent"
    /\ calls' = Frame(t, [pc |-> "prev_recv",
                          sent_speed |-> Rate(calls[t].net_io[1].bytes_sent,
                                              prev_net_io[1].io.bytes_sent,
                                              calls[t].time_diff),
                          read_from |-> calls[t].read_from \cup {prev_net_io[1].by}])
    /\ UNCHANGED <<threaded, host_io, prev_net_io, prev_time, recent, parseVars, pollVars, fnVars>>

\* recv_speed = (net_io.bytes_recv - prev_net_io.bytes_recv) / time_diff
NetReadPrevRecv(t) ==
    /\ calls[t].pc = "prev_recv"
    /\ calls' = Frame(t, [pc |-> "store_io",
                          recv_speed |-> Rate(calls[t].net_io[1].bytes_recv,
                                              prev_net_io[1].io.bytes_recv,
                                              calls[t].time_diff),
                          read_from |-> calls[t].read_from \cup {prev_net_io[1].by}])
    /\ UNCHANGED <<threaded, host_io, prev_net_io, prev_time, recent, parseVars, pollVars, fnVars>>

\* get_network_metrics.prev_net_io = net_io, after the rates
NetStoreIo(t) ==
    /\ calls[t].pc = "store_io"
    /\ prev_net_io' = StoredIo(t)
    /\ calls' = Frame(t, [pc |-> "store_time"])
    /\ UNCHANGED <<threaded, host_io, prev_time, recent, parseVars, pollVars, fnVars>>

\* get_network_metrics.prev_time = current_time, then the return
NetStoreTime(t) ==
    /\ calls[t].pc = "store_time"
    /\ prev_time' = StoredTime(t)
    /\ calls' = Frame(t, [pc |-> "returned"])
    /\ UNCHANGED <<threaded, host_io, prev_net_io, recent, parseVars, pollVars, fnVars>>

\* The caller takes the result (or the exception) and the frame is gone.
NetLeave(t) ==
    /\ calls[t].pc \in {"returned", "raised"}
    /\ calls' = [calls EXCEPT ![t] = IdleFrame]
    /\ UNCHANGED <<threaded, host_io, prev_net_io, prev_time, recent, parseVars, pollVars, fnVars>>

NetNext ==
    \E t \in Threads :
        \/ NetReadCounters(t)
        \/ NetReadClock(t)
        \/ NetCheckPrev(t)
        \/ NetStoreFirstIo(t)
        \/ NetStoreFirstTime(t)
        \/ NetReadPrevTime(t)
        \/ NetReadPrevSent(t)
        \/ NetReadPrevRecv(t)
        \/ NetStoreIo(t)
        \/ NetStoreTime(t)
        \/ NetLeave(t)

\* ------------------------------------------------------------------------
\* calculate_memory_pressure and get_memory_pressure_metrics
\* ------------------------------------------------------------------------

LOW_MEMORY_THRESHOLD == 50

LOW_SWAP_THRESHOLD == 20

MAX_PRESSURE_CAP == 50

BYTES_PER_MB == 1048576

\* Weights that give swap and memory usage each a half.
WeightsEven == [memory_usage |-> 5, swap_usage |-> 5, available |-> 0]

\* The weights 0.7, 0.2 and 0.1, in tenths.
MEMORY_PRESSURE_WEIGHTS == [memory_usage |-> 7, swap_usage |-> 2, available |-> 1]

\* n / d rounded to the nearest integer, a tie going to the even one (d > 0).
RoundHalfEven(n, d) ==
    LET q == n \div d
        r == n % d
    IN  IF 2 * r < d THEN q
        ELSE IF 2 * r > d THEN q + 1
        ELSE IF q % 2 = 0 THEN q ELSE q + 1

\* min(100, max(0, x)) for a fraction with a positive denominator.
Clamp(x) ==
    IF x.num < 0 THEN Frac(0, 1)
    ELSE IF x.num > 100 * x.den THEN Frac(100, 1)
    ELSE x

\* A cap at half of MAX_PRESSURE_CAP.
CapAtHalf(x) ==
    IF 2 * x.num > MAX_PRESSURE_CAP * x.den THEN Frac(MAX_PRESSURE_CAP, 2) ELSE x

\* min(x, MAX_PRESSURE_CAP)
Cap(x) == IF x.num > MAX_PRESSURE_CAP * x.den THEN Frac(MAX_PRESSURE_CAP, 1) ELSE x

\* The low-usage condition with the swap test left out.
LowUsageMemoryOnly(memory, swap) == memory.percent < LOW_MEMORY_THRESHOLD

\* memory.percent < LOW_MEMORY_THRESHOLD and swap.percent < LOW_SWAP_THRESHOLD
LowUsage(memory, swap) ==
    memory.percent < LOW_MEMORY_THRESHOLD /\ swap.percent < LOW_SWAP_THRESHOLD

\* round(x, 1) of the float computed for the exact value x, in tenths.  The
\* float differs from x by rounding errors far smaller than the distance of
\* any x of these inputs to a rounding boundary, unless x lies exactly on
\* one: then the float may fall on either side (19 * 0.2 is
\* 3.8000000000000003), and either neighbour can be returned.
RoundTenths(x) ==
    IF 2 * ((10 * x.num) % x.den) = x.den
       THEN {(10 * x.num) \div x.den, (10 * x.num) \div x.den + 1}
       ELSE {RoundHalfEven(10 * x.num, x.den)}

\* The values the call can return: the three weighted components summed,
\* clamped, capped for low usage, and rounded to one decimal.
calculate_memory_pressure(memory, swap) ==
    LET share == Ratio(memory.available, memory.total)
        raw == Frac(MEMORY_PRESSURE_WEIGHTS.memory_usage * memory.percent * share.den
                      + MEMORY_PRESSURE_WEIGHTS.swap_usage * swap.percent * share.den
                      + MEMORY_PRESSURE_WEIGHTS.available
                          * (100 * share.den - 100 * share.num),
                    10 * share.den)
        clamped == Clamp(raw)
        capped == IF LowUsage(memory, swap) THEN Cap(clamped) ELSE clamped
    IN  {Frac(tenths, 10) : tenths \in RoundTenths(capped)}

\* The arguments calculate_memory_pressure is applied to on its own:
\* percentages and byte counts a host reports, and, with them, a percentage
\* above 100 and a negative available count, which the function accepts
\* like any other number.
ScorePercents == {0, 30, 49, 50, 60, 95, 100, 120}

ScoreSwapPercents == {0, 5, 10, 19, 20, 80, 100}

ScoreMemorySizes ==
    { [available |-> a * BYTES_PER_MB, total |-> t * BYTES_PER_MB] :
        <<a, t>> \in { <<256, 1024>>, <<768, 1024>>, <<64, 1024>>, <<0, 1024>>,
                       <<1024, 1024>>, <<128, 1024>>, <<-768, 128>> } }

ScoreInputs ==
    { [memory |-> [percent |-> p, available |-> size.available, total |-> size.total],
       swap |-> [percent |-> q]] :
        p \in ScorePercents, q \in ScoreSwapPercents, size \in ScoreMemorySizes }

\* Readings of psutil.virtual_memory() and psutil.swap_memory(), in bytes.
MemorySamples ==
    { [percent |-> 60, available |-> 256 * BYTES_PER_MB, total |-> 1024 * BYTES_PER_MB],
      [percent |-> 30, available |-> 768 * BYTES_PER_MB, total |-> 1024 * BYTES_PER_MB] }

SwapSamples ==
    { [percent |-> 10, used |-> 100 * BYTES_PER_MB, total |-> 1000 * BYTES_PER_MB,
       free |-> 900 * BYTES_PER_MB] }

\* The result when psutil answers and calculate_memory_pressure returns
\* score, and the all-zero result of the handler for any exception.
get_memory_pressure_metrics(ok, memory, swap, score) ==
    IF ok
    THEN [memory_pressure |-> score,
          swap |-> [used |-> Frac(swap.used, BYTES_PER_MB),
                    total |-> Frac(swap.total, BYTES_PER_MB),
                    percent |-> swap.percent,
                    free |-> Frac(swap.free, BYTES_PER_MB)],
          memory |-> [available |-> Frac(memory.available, BYTES_PER_MB),
                      total |-> Frac(memory.total, BYTES_PER_MB),
                      percent |-> memory.percent]]
    ELSE [memory_pressure |-> Zero,
          swap |-> [used |-> Zero, total |-> Zero, percent |-> 0, free |-> Zero],
          memory |-> [available |-> Zero, total |-> Zero, percent |-> 0]]

\* ------------------------------------------------------------------------
\* Numbers rendered by f-strings
\* ------------------------------------------------------------------------

DigitChar(d) == CHOOSE c \in Digits : DigitVal(c) = d

\* The decimal digits of a natural number.
RECURSIVE NatText(_)
NatText(n) ==
    IF n < 10 THEN <<DigitChar(n)>>
    ELSE NatText(n \div 10) \o <<DigitChar(n % 10)>>

\* f"{n}" for an integer n.
IntText(n) == IF n < 0 THEN <<"-">> \o NatText(-n) ELSE NatText(n)

RECURSIVE Pow10(_)
Pow10(k) == IF k = 0 THEN 1 ELSE 10 * Pow10(k - 1)

\* t with zeros put in front until it has k characters.
RECURSIVE ZeroPadded(_, _)
ZeroPadded(t, k) == IF Len(t) >= k THEN t ELSE ZeroPadded(<<"0">> \o t, k)

\* f"{n / d:.<places>f}" for n >= 0 and d a power of two: the quotient is
\* exact as a float, and the format rounds it to the given number of
\* decimals, a tie going to the even digit.
FixedText(n, d, places) ==
    LET rest == Ratio(n % d, d)
        scaled == (n \div d) * Pow10(places)
                      + RoundHalfEven(rest.num * Pow10(places), rest.den)
    IN  NatText(scaled \div Pow10(places)) \o <<".">>
            \o ZeroPadded(NatText(scaled % Pow10(places)), places)

\* ------------------------------------------------------------------------
\* format_bytes
\* ------------------------------------------------------------------------

BYTES_PER_KB == 1024

\* format_bytes with each threshold exclusive.
format_bytes_exclusive(bytes_value) ==
    IF bytes_value > BYTES_PER_MB * 1024
       THEN FixedText(bytes_value, BYTES_PER_MB * 1024, 2) \o <<" ", "G", "B">>
    ELSE IF bytes_value > BYTES_PER_MB
       THEN FixedText(bytes_value, BYTES_PER_MB, 1) \o <<" ", "M", "B">>
    ELSE IF bytes_value > BYTES_PER_KB
       THEN FixedText(bytes_value, BYTES_PER_KB, 1) \o <<" ", "K", "B">>
    ELSE IntText(bytes_value) \o <<" ", "B">>

format_bytes(bytes_value) ==
    IF bytes_value >= BYTES_PER_MB * 1024
       THEN FixedText(bytes_value, BYTES_PER_MB * 1024, 2) \o <<" ", "G", "B">>
    ELSE IF bytes_value >= BYTES_PER_MB
       THEN FixedText(bytes_value, BYTES_PER_MB, 1) \o <<" ", "M", "B">>
    ELSE IF bytes_value >= BYTES_PER_KB
       THEN FixedText(bytes_value, BYTES_PER_KB, 1) \o <<" ", "K", "B">>
    ELSE IntText(bytes_value) \o <<" ", "B">>

\* The spacing of the byte counts formatted below 3 KiB.
ByteStep == 64

\* Byte counts at, next to and between the thresholds.
ThresholdCounts ==
    UNION { {t - 1, t, t + t \div 1024, t + t \div 8, t + t \div 4, t + t \div 2} :
              t \in {BYTES_PER_KB, BYTES_PER_MB, BYTES_PER_MB * 1024} }

ByteCounts == {k * ByteStep : k \in 0..MaxByteSteps} \cup {512, 1536} \cup ThresholdCounts

\* ------------------------------------------------------------------------
\* format_uptime
\* ------------------------------------------------------------------------

SECONDS_PER_HOUR == 3600

SECONDS_PER_MINUTE == 60

\* format_uptime with the minutes not reduced to the last hour.
format_uptime_total_minutes(uptime_seconds) ==
    IntText(uptime_seconds \div SECONDS_PER_HOUR) \o <<"h", " ">>
        \o IntText(uptime_seconds \div SECONDS_PER_MINUTE) \o <<"m", " ">>
        \o IntText(uptime_seconds % SECONDS_PER_MINUTE) \o <<"s">>

\* f"{hours}h {minutes}m {seconds}s"
format_uptime(uptime_seconds) ==
    IntText(uptime_seconds \div SECONDS_PER_HOUR) \o <<"h", " ">>
        \o IntText((uptime_seconds % SECONDS_PER_HOUR) \div SECONDS_PER_MINUTE) \o <<"m", " ">>
        \o IntText(uptime_seconds % SECONDS_PER_MINUTE) \o <<"s">>

\* The uptimes formatted: int(time.time() - psutil.boot_time()) of a host
\* that has been up for at most MaxUptime seconds.
Uptimes == 0..MaxUptime

\* int(time.time() - psutil.boot_time()) as read by one poll.
UptimeSample == 3661

\* ------------------------------------------------------------------------
\* get_system_metrics and the functions it calls
\* ------------------------------------------------------------------------

\* The thread that serves the poll.
Poller == 1

ErrorPayload(text) == [error |-> text]

JetsonFailure == ErrorPayload("Failed to get GPU metrics")

NoGpu == ErrorPayload("No NVIDIA GPU detected")

NvmlFailure == ErrorPayload("Failed to get GPU metrics: NVMLError")

Thermal(cpu, gpu, status) == [cpu_throttled |-> cpu, gpu_throttled |-> gpu, status |-> status]

\* Throttling as it would be if only the CPU flag decided the status.
ThrottlingCpuOnly(cpu, gpu) == Thermal(cpu, gpu, IF cpu THEN "Throttled" ELSE "Normal")

Throttling(cpu, gpu) == Thermal(cpu, gpu, IF cpu \/ gpu THEN "Throttled" ELSE "Normal")

CPU_THROTTLE == <<"C", "P", "U", "_", "T", "H", "R", "O", "T", "T", "L", "E">>

GPU_THROTTLE == <<"G", "P", "U", "_", "T", "H", "R", "O", "T", "T", "L", "E">>

\* What the subprocess may write as its first line.
PollLines ==
    { <<>>,
      RAM \o <<" ", "7", "/", "8">> \o MEGABYTE \o <<" ">> \o GR3D_FREQ \o <<" ", "7", "%">>,
      RAM \o <<" ", "7", "/", "x">> \o MEGABYTE,
      RAM \o <<" ", "7", "/", "0">> \o MEGABYTE,
      GR3D_FREQ \o <<" ", "7", "%", " ">> \o CPU_THROTTLE,
      GPU_THROTTLE,
      <<"x", "\n">> }

\* subprocess.SubprocessError and its subclasses.
SubprocessErrors == {"SubprocessError", "TimeoutExpired"}

\* What subprocess.Popen raises when it cannot start the utility: the
\* OSError of a missing or non-executable file, or a SubprocessError.
SpawnFailures == {"FileNotFoundError", "PermissionError", "SubprocessError"}

\* Whether the caller's except clause catches e: get_thermal_throttling_status
\* catches Exception, get_jetson_gpu_metrics catches SubprocessError and
\* ValueError.
Catches(caller, e) ==
    IF caller = "thermal" THEN TRUE ELSE e \in SubprocessErrors \cup {"ValueError"}

NoChild == [state |-> "none", kind |-> "none", text |-> <<>>, obeys |-> FALSE, signalled |-> FALSE]

IdlePoll ==
    [pc |-> "idle", sub |-> "none", stats |-> <<>>, exc |-> "none",
     memory_percent |-> 0, pressure |-> None, thermal |-> None, network |-> None,
     gpu |-> None, gpu_fault |-> "none",
     probed |-> [caller \in {"thermal", "gpu"} |-> None],
     nvml |-> "untouched", file_error |-> None]

With(changes) == changes @@ poll

InSubprocessCaller == poll.pc \in {"thermal", "gpu"}

\* The path is readable and its text, lowered, contains "jetson".
is_jetson == model_file = "jetson"

\* cpu_percent and virtual_memory are read
PollStart ==
    /\ poll.pc = "idle"
    /\ \E memory \in MemorySamples :
          poll' = With([pc |-> "pressure", memory_percent |-> memory.percent])
    /\ UNCHANGED <<model_file, children, snapshot, parseVars, netVars, fnVars>>

\* get_memory_pressure_metrics()
PollMemoryPressure ==
    /\ poll.pc = "pressure"
    /\ \E ok \in BOOLEAN, memory \in MemorySamples, swap \in SwapSamples :
          \E score \in calculate_memory_pressure(memory, swap) :
              poll' = With([pc |-> "thermal", sub |-> "probe",
                            pressure |-> Some(get_memory_pressure_metrics(ok, memory, swap, score))])
    /\ UNCHANGED <<model_file, children, snapshot, parseVars, netVars, fnVars>>

\* if is_jetson(): in get_thermal_throttling_status and in get_gpu_metrics;
\* probed keeps what each of the two calls returned.
PollProbe ==
    /\ InSubprocessCaller
    /\ poll.sub = "probe"
    /\ poll' = With([sub |-> IF is_jetson THEN "popen"
                             ELSE IF poll.pc = "thermal" THEN "file" ELSE "nvml_init",
                     probed |-> [poll.probed EXCEPT ![poll.pc] = Some(is_jetson)]])
    /\ UNCHANGED <<model_file, children, snapshot, parseVars, netVars, fnVars>>

\* The exception e raised inside the function the poll is in: the function
\* returns its error value when its except clause catches e, and otherwise
\* e leaves get_system_metrics too, which has no handler.  Only
\* get_jetson_gpu_metrics has a clause that lets exceptions through, and
\* gpu_fault keeps what was raised inside it.
Fails(e) ==
    IF Catches(poll.pc, e)
    THEN IF poll.pc = "thermal"
         THEN With([pc |-> "network", sub |-> "none",
                    thermal |-> Some(Thermal(FALSE, FALSE, "Error"))])
         ELSE With([pc |-> "platform", sub |-> "none", gpu_fault |-> e,
                    gpu |-> Some(JetsonFailure)])
    ELSE With([pc |-> "raised", sub |-> "none", gpu_fault |-> e, exc |-> e])

\* subprocess.Popen(['tegrastats', ...]): the utility starts, and then
\* writes a line, exits at once or stays silent, or the spawn fails.
SubPopen ==
    /\ InSubprocessCaller
    /\ poll.sub = "popen"
    /\ \/ /\ \E text \in PollLines, obeys \in BOOLEAN :
                children' = [children EXCEPT ![poll.pc] =
                                [state |-> "running", kind |-> "emits", text |-> text,
                                 obeys |-> obeys, signalled |-> FALSE]]
          /\ poll' = With([sub |-> "readline"])
       \/ /\ children' = [children EXCEPT ![poll.pc] =
                             [state |-> "exited", kind |-> "exits", text |-> <<>>,
                              obeys |-> TRUE, signalled |-> FALSE]]
          /\ poll' = With([sub |-> "readline"])
       \/ /\ \E obeys \in BOOLEAN :
                children' = [children EXCEPT ![poll.pc] =
                                [state |-> "running", kind |-> "hangs", text |-> <<>>,
                                 obeys |-> obeys, signalled |-> FALSE]]
          /\ poll' = With([sub |-> "readline"])
       \/ /\ \E e \in SpawnFailures : poll' = Fails(e)
          /\ UNCHANGED children
    /\ UNCHANGED <<model_file, snapshot, parseVars, netVars, fnVars>>

\* stats = stdout.readline().strip(): returns once the subprocess has
\* written a line or closed its output, and blocks until then.
SubReadline ==
    /\ InSubprocessCaller
    /\ poll.sub = "readline"
    /\ children[poll.pc].kind # "hangs"
    /\ poll' = With([sub |-> "terminate", stats |-> Strip(children[poll.pc].text)])
    /\ UNCHANGED <<model_file, children, snapshot, parseVars, netVars, fnVars>>

\* tegrastats_process.terminate()
SubTerminate ==
    /\ InSubprocessCaller
    /\ poll.sub = "terminate"
    /\ children' = [children EXCEPT ![poll.pc].signalled = TRUE]
    /\ poll' = With([sub |-> "wait"])
    /\ UNCHANGED <<model_file, snapshot, parseVars, netVars, fnVars>>

\* tegrastats_process.wait(timeout=1): returns when the subprocess has
\* exited, raises TimeoutExpired when it has not within the second.  The
\* thermal caller then builds its result from the line.
SubWait ==
    /\ InSubprocessCaller
    /\ poll.sub = "wait"
    /\ IF children[poll.pc].state = "exited" \/ children[poll.pc].obeys
          THEN /\ children' = [children EXCEPT ![poll.pc].state = "exited"]
               /\ poll' = IF poll.pc = "gpu"
                             THEN With([sub |-> "parse"])
                             ELSE With([pc |-> "network", sub |-> "none",
                                        thermal |-> Some(Throttling(
                                            Contains(poll.stats, CPU_THROTTLE),
                                            Contains(poll.stats, GPU_THROTTLE)))])
          ELSE /\ poll' = Fails("TimeoutExpired")
               /\ UNCHANGED children
    /\ UNCHANGED <<model_file, snapshot, parseVars, netVars, fnVars>>

\* get_jetson_gpu_metrics builds and returns the metrics dictionary
GpuParse ==
    /\ poll.pc = "gpu"
    /\ poll.sub = "parse"
    /\ LET built == ParseTegrastats(poll.stats)
       IN  poll' = IF built.raised = "none"
                      THEN With([pc |-> "platform", sub |-> "none", gpu |-> Some(built.value)])
                      ELSE Fails(built.raised)
    /\ UNCHANGED <<model_file, children, snapshot, parseVars, netVars, fnVars>>

\* What reading and parsing core_throttle_count can give: a count, or one
\* of the exceptions of open(), read() and int().
ThrottleFileReads ==
    {[error |-> "none", count |-> n] : n \in {0, 3}}
        \cup {[error |-> e, count |-> 0] :
                e \in {"FileNotFoundError", "PermissionError", "ValueError", "OSError"}}

\* The standard-host branch of get_thermal_throttling_status; file_error
\* keeps what opening, reading and parsing the file raised.
ThermalFile ==
    /\ poll.pc = "thermal"
    /\ poll.sub = "file"
    /\ \E r \in ThrottleFileReads :
          poll' = [file_error |-> Some(r.error)] @@
                  (IF r.error = "none"
                      THEN With([pc |-> "network", sub |-> "none",
                                 thermal |-> Some(Throttling(r.count > 0, FALSE))])
                      ELSE IF r.error \in {"FileNotFoundError", "PermissionError", "ValueError"}
                      THEN With([pc |-> "network", sub |-> "none",
                                 thermal |-> Some(Thermal(FALSE, FALSE, "Unknown"))])
                      ELSE Fails(r.error))
    /\ UNCHANGED <<model_file, children, snapshot, parseVars, netVars, fnVars>>

\* get_network_metrics run from start to end by one thread: the result and
\* the previous-sample attributes it leaves.
get_network_metrics(net_io, now, old_io, old_time) ==
    LET first == old_io = None
        time_diff == IF first THEN 0 ELSE now - old_time[1].time
        computed == ~first /\ time_diff > 0
    IN  [bytes_sent |-> net_io.bytes_sent,
         bytes_recv |-> net_io.bytes_recv,
         sent_speed |-> IF computed
                           THEN Rate(net_io.bytes_sent, old_io[1].io.bytes_sent, time_diff)
                           ELSE Zero,
         recv_speed |-> IF computed
                           THEN Rate(net_io.bytes_recv, old_io[1].io.bytes_recv, time_diff)
                           ELSE Zero]

\* disk_usage, then get_network_metrics()
PollNetwork ==
    /\ poll.pc = "network"
    /\ \E c \in CounterSamples, now \in Times :
          /\ NotBefore(c, host_io)
          /\ host_io' = c
          /\ poll' = With([pc |-> "gpu", sub |-> "probe",
                           network |-> Some(get_network_metrics(c, now, prev_net_io, prev_time))])
          /\ prev_net_io' = Some([io |-> c, by |-> Poller])
          /\ prev_time' = Some([time |-> now, by |-> Poller])
    /\ UNCHANGED <<threaded, calls, recent, model_file, children, snapshot, parseVars, fnVars>>

\* NvmlInit as it would be if a failed initialization gave the error value
\* of get_jetson_gpu_metrics.
NvmlInitOtherPayload ==
    /\ poll.pc = "gpu"
    /\ poll.sub = "nvml_init"
    /\ \E ok \in BOOLEAN :
          poll' = IF ok THEN With([sub |-> "nvml_query", nvml |-> "initialized"])
                  ELSE With([pc |-> "platform", sub |-> "none", nvml |-> "init_failed",
                             gpu |-> Some(JetsonFailure)])
    /\ UNCHANGED <<model_file, children, snapshot, parseVars, netVars, fnVars>>

\* pynvml.nvmlInit() in get_gpu_metrics; nvml keeps how far the poll went
\* with the library.
NvmlInit ==
    /\ poll.pc = "gpu"
    /\ poll.sub = "nvml_init"
    /\ \E ok \in BOOLEAN :
          poll' = IF ok THEN With([sub |-> "nvml_query", nvml |-> "initialized"])
                  ELSE With([pc |-> "platform", sub |-> "none", nvml |-> "init_failed",
                             gpu |-> Some(NoGpu)])
    /\ UNCHANGED <<model_file, children, snapshot, parseVars, netVars, fnVars>>

\* A reading of device 0: utilization, and used and total memory in bytes.
NvmlSample == [gpu |-> 40, used |-> 256 * BYTES_PER_MB, total |-> 1024 * BYTES_PER_MB]

\* get_nvidia_gpu_metrics()
NvmlQuery ==
    /\ poll.pc = "gpu"
    /\ poll.sub = "nvml_query"
    /\ \E ok \in BOOLEAN :
          poll' = IF ok
                  THEN With([pc |-> "platform", sub |-> "none", nvml |-> "queried",
                             gpu |-> Some([gpu_utilization |-> NvmlSample.gpu,
                                           gpu_memory_percent |-> Percent(NvmlSample.used, NvmlSample.total),
                                           gpu_memory_used |-> Frac(NvmlSample.used, BYTES_PER_MB),
                                           gpu_memory_total |-> Frac(NvmlSample.total, BYTES_PER_MB)])])
                  ELSE With([pc |-> "platform", sub |-> "none", nvml |-> "queried",
                             gpu |-> Some(NvmlFailure)])
    /\ UNCHANGED <<model_file, children, snapshot, parseVars, netVars, fnVars>>

\* The dictionary get_system_metrics returns; is_jetson() is called again
\* for the platform entry.
PollReturn ==
    /\ poll.pc = "platform"
    /\ snapshot' = Some([timestamp |-> "YYYY-MM-DD HH:MM:SS",
                         cpu_percent |-> 0,
                         memory_percent |-> poll.memory_percent,
                         disk_percent |-> 0,
                         uptime |-> format_uptime(UptimeSample),
                         network |-> poll.network[1],
                         gpu_metrics |-> poll.gpu[1],
                         platform |-> [system |-> "Linux", machine |-> "aarch64",
                                       is_jetson |-> is_jetson],
                         memory_pressure |-> poll.pressure[1],
                         thermal_status |-> poll.thermal[1]])
    /\ poll' = With([pc |-> "returned"])
    /\ UNCHANGED <<model_file, children, parseVars, netVars, fnVars>>

\* The request is answered (with the snapshot, or with the unhandled
\* exception); the next poll starts from a fresh frame.
PollLeave ==
    /\ poll.pc \in {"returned", "raised"}
    /\ poll' = IdlePoll
    /\ snapshot' = None
    /\ children' = [w \in {"thermal", "gpu"} |-> NoChild]
    /\ UNCHANGED <<model_file, parseVars, netVars, fnVars>>

\* The device-model file appears, disappears or changes under the poll.
ModelFileChanges ==
    /\ poll.pc # "idle"
    /\ model_file' \in {"jetson", "other", "unreadable"} \ {model_file}
    /\ UNCHANGED <<poll, children, snapshot, parseVars, netVars, fnVars>>

\* The steps of the polling thread.
PollStep ==
    \/ PollStart
    \/ PollMemoryPressure
    \/ PollProbe
    \/ SubPopen
    \/ SubReadline
    \/ SubTerminate
    \/ SubWait
    \/ GpuParse
    \/ ThermalFile
    \/ PollNetwork
    \/ NvmlInit
    \/ NvmlQuery
    \/ PollReturn
    \/ PollLeave

PollNext == PollStep \/ ModelFileChanges

PollIdle ==
    /\ model_file = "other"
    /\ poll = IdlePoll
    /\ children = [w \in {"thermal", "gpu"} |-> NoChild]
    /\ snapshot = None

\* ------------------------------------------------------------------------
\* The parser applied to a line
\* ------------------------------------------------------------------------

\* No helper is being called on its own.
FnIdle ==
    /\ fn_pc = "off"
    /\ fn_arg = None
    /\ fn_result = None

ParseIdle ==
    /\ line = <<>>
    /\ parse_pc = "off"
    /\ parse_field = 0
    /\ parse_value = None
    /\ parse_outcome = Returned(EmptyDict)

NetIdle ==
    /\ threaded = FALSE
    /\ host_io = Counters(1000, 2000)
    /\ prev_net_io = None
    /\ prev_time = None
    /\ calls = [t \in Threads |-> IdleFrame]
    /\ recent = <<None, None>>

ParseInit ==
    /\ line \in Lines
    /\ parse_pc = "input"
    /\ parse_field = 0
    /\ parse_value = None
    /\ parse_outcome = Returned(EmptyDict)
    /\ NetIdle
    /\ PollIdle
    /\ FnIdle

\* parse_tegrastats_value(line, key, unit) for one of the five fields
ParseValueCall ==
    /\ parse_pc = "input"
    /\ \E n \in 1..Len(ScalarFields) :
          /\ parse_field' = n
          /\ parse_value' = parse_tegrastats_value(line, ScalarFields[n][2], ScalarFields[n][3])
    /\ parse_pc' = "value"
    /\ UNCHANGED <<line, parse_outcome, netVars, pollVars, fnVars>>

\* stats = readline().strip(), then the dictionary is built from stats
ParseLineCall ==
    /\ parse_pc = "input"
    /\ parse_outcome' = ParseTegrastats(Strip(line))
    /\ parse_pc' = "metrics"
    /\ UNCHANGED <<line, parse_field, parse_value, netVars, pollVars, fnVars>>

ParseNext == ParseValueCall \/ ParseLineCall

SpecParse == ParseInit /\ [][ParseNext]_vars

\* ------------------------------------------------------------------------
\* Specifications of get_network_metrics
\* ------------------------------------------------------------------------

\* The state at process start, for the given ways of serving requests.
NetStart(modes) ==
    /\ threaded \in modes
    /\ host_io \in CounterSamples
    /\ prev_net_io = None
    /\ prev_time = None
    /\ calls = [t \in Threads |-> IdleFrame]
    /\ recent = <<None, None>>
    /\ ParseIdle
    /\ PollIdle
    /\ FnIdle

NetInit == NetStart(BOOLEAN)

NetSeqInit == NetStart({FALSE})

\* Requests served by concurrent threads or one at a time.
SpecNet == NetInit /\ [][NetNext]_vars

\* Requests served one at a time.
SpecNetSeq == NetSeqInit /\ [][NetNext]_vars

\* ------------------------------------------------------------------------
\* Specifications of get_system_metrics
\* ------------------------------------------------------------------------

PollInit ==
    /\ model_file \in {"jetson", "other", "unreadable"}
    /\ poll = IdlePoll
    /\ children = [w \in {"thermal", "gpu"} |-> NoChild]
    /\ snapshot = None
    /\ threaded = FALSE
    /\ host_io \in CounterSamples
    /\ prev_net_io = None
    /\ prev_time = None
    /\ calls = [t \in Threads |-> IdleFrame]
    /\ recent = <<None, None>>
    /\ ParseIdle
    /\ FnIdle

\* Polls served one after another.
Spec == PollInit /\ [][PollNext]_vars

\* The same, the polling thread taking every step it can take.
FairSpec == Spec /\ WF_vars(PollStep)

\* ------------------------------------------------------------------------
\* Specifications of the helpers called on their own
\* ------------------------------------------------------------------------

\* A helper about to be applied to one of the given arguments.
FnStart(args) ==
    /\ fn_pc = "call"
    /\ fn_arg \in {Some(a) : a \in args}
    /\ fn_result = None
    /\ ParseIdle
    /\ NetIdle
    /\ PollIdle

ScoreInit == FnStart(ScoreInputs)

BytesInit == FnStart(ByteCounts)

UptimeInit == FnStart(Uptimes)

\* calculate_memory_pressure(memory, swap)
ScoreCall ==
    /\ fn_pc = "call"
    /\ \E score \in calculate_memory_pressure(fn_arg[1].memory, fn_arg[1].swap) :
          fn_result' = Some(score)
    /\ fn_pc' = "done"
    /\ UNCHANGED <<fn_arg, parseVars, netVars, pollVars>>

\* format_bytes(bytes_value)
BytesCall ==
    /\ fn_pc = "call"
    /\ fn_result' = Some(format_bytes(fn_arg[1]))
    /\ fn_pc' = "done"
    /\ UNCHANGED <<fn_arg, parseVars, netVars, pollVars>>

\* format_uptime(uptime_seconds)
UptimeCall ==
    /\ fn_pc = "call"
    /\ fn_result' = Some(format_uptime(fn_arg[1]))
    /\ fn_pc' = "done"
    /\ UNCHANGED <<fn_arg, parseVars, netVars, pollVars>>

SpecScore == ScoreInit /\ [][ScoreCall]_vars

SpecBytes == BytesInit /\ [][BytesCall]_vars

SpecUptime == UptimeInit /\ [][UptimeCall]_vars

\* ------------------------------------------------------------------------
\* Claims about get_network_metrics
\* ------------------------------------------------------------------------

Quiescent == \A t \in Threads : ~Running(t)

\* C2: access to the previous-sample state is mutually exclusive: every
\* rate a call returns is computed from a previous time and previous
\* counters stored by one single earlier call, and whenever no call is in
\* progress the stored counters and the stored time come from the same call.
C2_PairFromOneSample ==
    /\ \A t \in Threads :
          calls[t].pc = "returned" => Cardinality(calls[t].read_from) <= 1
    /\ (Quiescent /\ prev_net_io # None /\ prev_time # None)
          => prev_net_io[1].by = prev_time[1].by

\* C5: with requests served one at a time, the call that finds no
\* previous-sample state returns both speeds 0, and when it returns the
\* stored counters and the stored time are the ones it read.
C5_FirstSampleZeroAndStored ==
    \A t \in Threads :
        (calls[t].pc = "returned" /\ calls[t].first)
            => /\ calls[t].sent_speed = Zero
               /\ calls[t].recv_speed = Zero
               /\ prev_net_io # None
               /\ prev_net_io[1].io = calls[t].net_io[1]
               /\ prev_time # None
               /\ prev_time[1].time = calls[t].current_time[1]

\* A first call has returned after reading counters other than the lowest.
C5_Witness ==
    \E t \in Threads :
        /\ calls[t].pc = "returned"
        /\ calls[t].first
        /\ calls[t].net_io[1] = Counters(2000, 4000)

\* C6: with requests served one at a time, a call that is not the first and
\* finds time_diff > 0 returns, for each direction, (its counter - the
\* counter the call before it read) / (its time - the time the call before
\* it read).
C6_RateAgainstPrecedingSample ==
    \A t \in Threads :
        (calls[t].pc = "returned" /\ ~calls[t].first /\ calls[t].time_diff > 0)
            => /\ recent[1] # None
               /\ recent[2] = Some([net_io |-> calls[t].net_io[1],
                                    time |-> calls[t].current_time[1]])
               /\ calls[t].current_time[1] - recent[1][1].time = calls[t].time_diff
               /\ FracEq(calls[t].sent_speed,
                         Frac(calls[t].net_io[1].bytes_sent - recent[1][1].net_io.bytes_sent,
                              calls[t].current_time[1] - recent[1][1].time))
               /\ FracEq(calls[t].recv_speed,
                         Frac(calls[t].net_io[1].bytes_recv - recent[1][1].net_io.bytes_recv,
                              calls[t].current_time[1] - recent[1][1].time))

\* (1000, 2000) at 1000, then (2000, 4000) at 1002: 500 and 1000 bytes/s.
C6_Witness ==
    \E t \in Threads :
        /\ calls[t].pc = "returned"
        /\ ~calls[t].first
        /\ recent = <<Some([net_io |-> Counters(1000, 2000), time |-> 1000]),
                      Some([net_io |-> Counters(2000, 4000), time |-> 1002])>>
        /\ FracEq(calls[t].sent_speed, Frac(500, 1))
        /\ FracEq(calls[t].recv_speed, Frac(1000, 1))

\* C7: the host's counters never decreasing, every call returns
\* sent_speed >= 0 and recv_speed >= 0, whatever the clock reads and whether
\* the calls run one at a time or concurrently.
C7_SpeedsNonNegative ==
    \A t \in Threads :
        calls[t].pc = "returned"
            => FracNonNeg(calls[t].sent_speed) /\ FracNonNeg(calls[t].recv_speed)

\* ------------------------------------------------------------------------
\* Claims about the parser
\* ------------------------------------------------------------------------

\* C9: ram_used, ram_total and ram_percent are all three in the result or
\* none of them is.
C9_RamAllOrNothing ==
    (parse_pc = "metrics" /\ parse_outcome.raised = "none")
        => LET present == {"ram_used", "ram_total", "ram_percent"}
                              \cap DOMAIN parse_outcome.value
           IN  present = {} \/ present = {"ram_used", "ram_total", "ram_percent"}

\* C10: parse_tegrastats_value returns None when the start marker is not
\* in the text, when the text between the marker and the end marker that
\* follows it is not a number, and when no end marker follows the marker.
C10_AbsentCases ==
    parse_pc = "value"
        => LET key == ScalarFields[parse_field][2]
               unit == ScalarFields[parse_field][3]
               i == Find(line, key)
               after == SubSeq(line, i + Len(key), Len(line))
               j == Find(after, unit)
           IN  (i = 0 \/ j = 0 \/ ~IsFloat(SubSeq(after, 1, j - 1)))
                   => parse_value = None

\* ------------------------------------------------------------------------
\* Claims about get_system_metrics and the subprocess
\* ------------------------------------------------------------------------

SnapshotKeys ==
    {"timestamp", "cpu_percent", "memory_percent", "disk_percent", "uptime", "network",
     "gpu_metrics", "platform", "memory_pressure", "thermal_status"}

\* C1: get_system_metrics never raises to its caller, and what it returns
\* is a snapshot with all ten top-level keys.
C1_AlwaysSnapshot ==
    /\ poll.pc # "raised"
    /\ poll.pc = "returned" => (snapshot # None /\ DOMAIN snapshot[1] = SnapshotKeys)

ThermalHasReturned == poll.pc \in {"network", "gpu", "platform", "returned", "raised"}

GpuHasReturned == poll.pc \in {"platform", "returned"}

\* C3: once get_thermal_throttling_status or get_jetson_gpu_metrics has
\* returned, the subprocess it spawned has exited.
C3_SubprocessExited ==
    /\ (ThermalHasReturned /\ children["thermal"].state # "none")
          => children["thermal"].state = "exited"
    /\ (GpuHasReturned /\ children["gpu"].state # "none")
          => children["gpu"].state = "exited"

WaitingForLine == InSubprocessCaller /\ poll.sub = "readline"

\* C4: a call that waits for the line of a subprocess that never writes one
\* eventually stops waiting and returns.
C4_HungSubprocessReturns ==
    (WaitingForLine /\ children[poll.pc].kind = "hangs") ~> ~WaitingForLine

\* C8: whatever is raised inside get_jetson_gpu_metrics, a failure to spawn
\* the utility or an exception while the line is parsed, the function
\* returns exactly {error: "Failed to get GPU metrics"} and nothing reaches
\* its caller.
C8_FailureBecomesErrorPayload ==
    poll.gpu_fault # "none"
        => (poll.pc # "raised" /\ poll.gpu = Some(JetsonFailure))

\* ------------------------------------------------------------------------
\* Claims about the scalar fields of the parsed line
\* ------------------------------------------------------------------------

\* C11: when the dictionary is built without an exception, each of the five
\* scalar fields is in it exactly when the line has the field's marker,
\* the field's unit after the marker, and a number between the two.
C11_ScalarFieldIffWellFormed ==
    (parse_pc = "metrics" /\ parse_outcome.raised = "none")
        => \A n \in 1..Len(ScalarFields) :
              LET stats == Strip(line)
                  i == Find(stats, ScalarFields[n][2])
                  after == SubSeq(stats, i + Len(ScalarFields[n][2]), Len(stats))
                  j == Find(after, ScalarFields[n][3])
              IN  (ScalarFields[n][1] \in DOMAIN parse_outcome.value)
                      <=> (i # 0 /\ j # 0 /\ IsFloat(Strip(SubSeq(after, 1, j - 1))))

\* ------------------------------------------------------------------------
\* Claims about the GPU selection, the thermal status and the platform
\* ------------------------------------------------------------------------

\* C12: get_gpu_metrics on a host is_jetson() reports as a Jetson returns
\* what get_jetson_gpu_metrics returns and leaves the NVML library
\* untouched; on any other host it initializes the library, returns exactly
\* {error: "No NVIDIA GPU detected"} when that fails, and what
\* get_nvidia_gpu_metrics returns when it succeeds.
C12_RoutesByPlatform ==
    /\ poll.probed["gpu"] = Some(TRUE) => poll.nvml = "untouched"
    /\ poll.gpu # None
          => IF poll.probed["gpu"] = Some(TRUE)
                THEN \/ poll.gpu = Some(ErrorPayload("Failed to get GPU metrics"))
                     \/ poll.gpu = Some(ParseTegrastats(poll.stats).value)
                ELSE /\ poll.probed["gpu"] = Some(FALSE)
                     /\ poll.nvml \in {"init_failed", "queried"}
                     /\ poll.nvml = "init_failed"
                           => poll.gpu = Some(ErrorPayload("No NVIDIA GPU detected"))
                     /\ poll.nvml = "queried"
                           => \/ "gpu_memory_percent" \in DOMAIN poll.gpu[1]
                              \/ poll.gpu = Some(NvmlFailure)

\* A poll on a standard host has returned a snapshot whose GPU entry is the
\* error of a failed library initialization.
C12_Witness ==
    /\ poll.pc = "returned"
    /\ poll.probed["gpu"] = Some(FALSE)
    /\ poll.nvml = "init_failed"
    /\ snapshot[1].gpu_metrics = ErrorPayload("No NVIDIA GPU detected")

\* The status is one of the four, is Throttled exactly when a flag is
\* set, and Unknown and Error come with both flags false.
ThermalConsistent(t) ==
    /\ t.status \in {"Normal", "Throttled", "Unknown", "Error"}
    /\ t.status = "Throttled" <=> (t.cpu_throttled \/ t.gpu_throttled)
    /\ t.status \in {"Unknown", "Error"} => (~t.cpu_throttled /\ ~t.gpu_throttled)

\* C13: get_thermal_throttling_status lets no exception out (an exception
\* leaves the poll only after the thermal status was returned), and every
\* status it returns is consistent and, on a standard host, has
\* gpu_throttled false.
C13_ThermalStatusConsistent ==
    /\ poll.pc = "raised" => poll.thermal # None
    /\ poll.thermal # None
          => /\ ThermalConsistent(poll.thermal[1])
             /\ poll.probed["thermal"] = Some(FALSE) => ~poll.thermal[1].gpu_throttled

\* The probe on a Jetson has returned Throttled for a line that names only
\* the GPU.
C13_Witness ==
    /\ poll.probed["thermal"] = Some(TRUE)
    /\ poll.thermal = Some(Thermal(FALSE, TRUE, "Throttled"))

\* C14: on a standard host, whenever opening, reading or parsing the
\* throttle-count file fails, the status returned is Unknown with both
\* flags false.
C14_UnreadableFileIsUnknown ==
    (poll.probed["thermal"] = Some(FALSE) /\ poll.file_error \notin {None, Some("none")})
        => poll.thermal = Some(Thermal(FALSE, FALSE, "Unknown"))

\* C17: the gpu_metrics of every snapshot is an error payload or has at
\* least one metric field.
C17_GpuMetricsNeverEmpty ==
    snapshot # None
        => \/ "error" \in DOMAIN snapshot[1].gpu_metrics
           \/ DOMAIN snapshot[1].gpu_metrics # {}

\* C20: in every snapshot the platform entry, the path the thermal probe
\* took and the GPU provider chosen all come from one answer of is_jetson().
C20_OnePlatformAnswer ==
    snapshot # None
        => /\ poll.probed["thermal"] = Some(snapshot[1].platform.is_jetson)
           /\ poll.probed["gpu"] = Some(snapshot[1].platform.is_jetson)

\* ------------------------------------------------------------------------
\* Claims about the memory pressure score
\* ------------------------------------------------------------------------

\* memoryPercent * 0.7 + swapPercent * 0.2
\* + (100 - memoryAvailable / memoryTotal * 100) * 0.1, exactly.
RawScore(a) ==
    LET share == Ratio(a.memory.available, a.memory.total)
    IN  Frac(7 * a.memory.percent * share.den + 2 * a.swap.percent * share.den
                + 100 * share.den - 100 * share.num,
             10 * share.den)

\* The smaller of two fractions with positive denominators.
FracMin(x, y) == IF x.num * y.den <= y.num * x.den THEN x ELSE y

\* The raw score clamped to [0, 100].
ClampedScore(a) ==
    IF RawScore(a).num < 0 THEN Frac(0, 1) ELSE FracMin(RawScore(a), Frac(100, 1))

\* r, a number of tenths, is x rounded to one decimal: within 0.05 of x.
IsTenthOf(r, x) ==
    /\ r.den = 10
    /\ 2 * (r.num * x.den - 10 * x.num) <= x.den
    /\ 2 * (10 * x.num - r.num * x.den) <= x.den

C16_LowUsageCap ==
    fn_pc = "done"
        => IF fn_arg[1].memory.percent < 50 /\ fn_arg[1].swap.percent < 20
              THEN /\ fn_result[1].num <= 50 * fn_result[1].den
                   /\ IsTenthOf(fn_result[1], FracMin(ClampedScore(fn_arg[1]), Frac(50, 1)))
              ELSE IsTenthOf(fn_result[1], ClampedScore(fn_arg[1]))

\* A low-usage input whose clamped sum is above 50 has been scored 50.
C16_Witness ==
    /\ fn_pc = "done"
    /\ fn_arg[1].memory.percent < 50
    /\ fn_arg[1].swap.percent < 20
    /\ ClampedScore(fn_arg[1]).num > 50 * ClampedScore(fn_arg[1]).den
    /\ fn_result = Some(Frac(500, 10))

\* ------------------------------------------------------------------------
\* Claims about format_bytes and format_uptime
\* ------------------------------------------------------------------------

\* A non-empty run of decimal digits.
AllDigits(t) == t # <<>> /\ \A i \in 1..Len(t) : t[i] \in Digits

\* text is n / d written with the given number of decimals: digits, a
\* point, that many digits, and a value within half a unit of the last
\* decimal of n / d.
RendersQuotient(text, n, d, places) ==
    LET parts == Split(text, <<".">>)
    IN  /\ Len(parts) = 2
        /\ AllDigits(parts[1])
        /\ AllDigits(parts[2])
        /\ Len(parts[2]) = places
        /\ LET rest == Ratio(n % d, d)
                extra == DecimalValue(parts[1] \o parts[2]) - (n \div d) * Pow10(places)
            IN  /\ 2 * (extra * rest.den - Pow10(places) * rest.num) <= rest.den
                /\ 2 * (Pow10(places) * rest.num - extra * rest.den) <= rest.den

\* C18: format_bytes writes n / 2^30 with two decimals and GB from 2^30
\* on, n / 2^20 with one decimal and MB from 2^20 on, n / 2^10 with one
\* decimal and KB from 2^10 on, and the integer itself and B below.
C18_UnitByThreshold ==
    fn_pc = "done"
        => LET n == fn_arg[1]
               pieces == Split(fn_result[1], <<" ">>)
           IN  /\ Len(pieces) = 2
               /\ IF n >= 1073741824
                     THEN pieces[2] = <<"G", "B">> /\ RendersQuotient(pieces[1], n, 1073741824, 2)
                  ELSE IF n >= 1048576
                     THEN pieces[2] = <<"M", "B">> /\ RendersQuotient(pieces[1], n, 1048576, 1)
                  ELSE IF n >= 1024
                     THEN pieces[2] = <<"K", "B">> /\ RendersQuotient(pieces[1], n, 1024, 1)
                  ELSE pieces[2] = <<"B">> /\ AllDigits(pieces[1]) /\ DecimalValue(pieces[1]) = n

\* 1572864 has been formatted as "1.5 MB".
C18_Witness ==
    /\ fn_pc = "done"
    /\ fn_arg = Some(1572864)
    /\ fn_result = Some(<<"1", ".", "5", " ", "M", "B">>)

\* C19: format_uptime writes "<h>h <m>m <s>s" with h, m and s runs of
\* digits, m and s below 60, and h * 3600 + m * 60 + s the uptime.
C19_UptimeDecomposes ==
    fn_pc = "done"
        => LET byHour == Split(fn_result[1], <<"h", " ">>)
           IN  /\ Len(byHour) = 2
               /\ AllDigits(byHour[1])
               /\ LET byMinute == Split(byHour[2], <<"m", " ">>)
                  IN  /\ Len(byMinute) = 2
                      /\ AllDigits(byMinute[1])
                      /\ Len(byMinute[2]) >= 2
                      /\ byMinute[2][Len(byMinute[2])] = "s"
                      /\ LET secondsText == SubSeq(byMinute[2], 1, Len(byMinute[2]) - 1)
                         IN  /\ AllDigits(secondsText)
                             /\ DecimalValue(byMinute[1]) < 60
                             /\ DecimalValue(secondsText) < 60
                             /\ DecimalValue(byHour[1]) * 3600 + DecimalValue(byMinute[1]) * 60
                                    + DecimalValue(secondsText) = fn_arg[1]

\* 3661 has been formatted as "1h 1m 1s".
C19_Witness ==
    /\ fn_pc = "done"
    /\ fn_arg = Some(3661)
    /\ fn_result = Some(<<"1", "h", " ", "1", "m", " ", "1", "s">>)

\* ------------------------------------------------------------------------
\* Claims about the clock guard and the racing first calls
\* ------------------------------------------------------------------------

\* C21: with requests served one at a time, a call that is not the first
\* and reads a time not after the time the call before it read returns both
\* speeds 0, and when it returns the stored counters and the stored time are
\* the ones it read.
C21_ClockGuardStillStores ==
    \A t \in Threads :
        (/\ calls[t].pc = "returned"
         /\ ~calls[t].first
         /\ recent[1] # None
         /\ calls[t].current_time[1] - recent[1][1].time <= 0)
            => /\ calls[t].sent_speed = Zero
               /\ calls[t].recv_speed = Zero
               /\ prev_net_io = Some([io |-> calls[t].net_io[1], by |-> t])
               /\ prev_time = Some([time |-> calls[t].current_time[1], by |-> t])

\* After (1000, 2000) at 1002 a call has read (2000, 4000) at 1000, the
\* clock having gone back, and has returned.
C21_Witness ==
    \E t \in Threads :
        /\ calls[t].pc = "returned"
        /\ ~calls[t].first
        /\ recent = <<Some([net_io |-> Counters(1000, 2000), time |-> 1002]),
                      Some([net_io |-> Counters(2000, 4000), time |-> 1000])>>

\* C23: with requests served concurrently or one at a time, no call to
\* get_network_metrics raises, and a call that found prev_net_io set finds
\* prev_time set when it reads it.
C23_NoCallRaises ==
    \A t \in Threads :
        /\ calls[t].pc # "raised"
        /\ calls[t].pc = "prev_time" => prev_time # None

\* ------------------------------------------------------------------------
\* Claims about the per-core block
\* ------------------------------------------------------------------------

\* The token reads usage%@frequency: a number, with "%" signs around it
\* dropped, then "@", then a number.
IsCoreToken(token) ==
    /\ Len(Split(token, <<"@">>)) >= 2
    /\ IsFloat(StripChars(Split(token, <<"@">>)[1], {"%"}))
    /\ IsFloat(Split(token, <<"@">>)[2])

\* The samples of the tokens that read as cores, in the order of the tokens.
RECURSIVE SamplesOf(_)
SamplesOf(tokens) ==
    IF tokens = <<>> THEN <<>>
    ELSE (IF IsCoreToken(Head(tokens))
             THEN <<[usage |-> FloatValue(StripChars(Split(Head(tokens), <<"@">>)[1], {"%"})),
                     frequency |-> FloatValue(Split(Head(tokens), <<"@">>)[2])]>>
             ELSE <<>>)
         \o SamplesOf(Tail(tokens))

\* The comma-separated tokens between the first "CPU [" and the "]" after it.
CoreTokensOf(stats) ==
    LET after == SubSeq(stats, Find(stats, CPU_OPEN) + Len(CPU_OPEN), Len(stats))
        close == Find(after, <<"]">>)
    IN  Split(IF close = 0 THEN after ELSE SubSeq(after, 1, close - 1), <<",">>)

InValidDomain(a) ==
    /\ a.memory.percent \in 0..100
    /\ a.swap.percent \in 0..100
    /\ a.memory.total > 0
    /\ 0 <= a.memory.available
    /\ a.memory.available <= a.memory.total

\* C24: for inputs in the valid domain with memory.percent < 50 and
\* swap.percent < 20 the clamped sum is below 50, and for every input in
\* the valid domain the value returned is one the function returns without
\* the override: the clamped sum rounded to one decimal.
C24_CapNeverBinds ==
    (fn_pc = "done" /\ InValidDomain(fn_arg[1]))
        => /\ (fn_arg[1].memory.percent < 50 /\ fn_arg[1].swap.percent < 20)
                 => ClampedScore(fn_arg[1]).num < 50 * ClampedScore(fn_arg[1]).den
           /\ fn_result[1] \in {Frac(tenths, 10) : tenths \in RoundTenths(ClampedScore(fn_arg[1]))}

\* The low-usage input with the highest sum, 49 % used, 19 % swap and
\* nothing available, has been scored 48.1.
C24_Witness ==
    /\ fn_pc = "done"
    /\ InValidDomain(fn_arg[1])
    /\ fn_arg[1].memory.percent = 49
    /\ fn_arg[1].swap.percent = 19
    /\ fn_arg[1].memory.available = 0
    /\ fn_result = Some(Frac(481, 10))

====
